---- MODULE Spec2Model ----
(***************************************************************************)
(* Training orchestration of recipes/nested_fnos/darcy/                    *)
(* finetune_nested_darcy.py: the epoch loop of TrainModel (training,       *)
(* periodic checkpoint, periodic validation, learning-rate decay, final    *)
(* checkpoint) and its resumption through load_checkpoint in               *)
(* nested_darcy_trainer.  A process may be killed at any point and the     *)
(* trainer started again; the checkpoint store is what survives.           *)
(* The start of a process (InitializeLoggers, the parent placeholder) is   *)
(* modelled step by step.  The epoch loop of main in                       *)
(* recipes/rnn/navier_stokes_rnn.py is a second specification, SpecRNN.    *)
(*                                                                         *)
(* Losses are integers (tenths); the validation error is an exact          *)
(* rational <<numerator, denominator>> in lowest terms.                    *)
(***************************************************************************)
EXTENDS Integers, Sequences, FiniteSets, TLC

\* ---------------------------------------------------------------- bounds
MaxEpochs == 5          \* cfg.training.max_epochs is drawn from 1..MaxEpochs
MaxFreq == 3            \* the three cadences are drawn from 1..MaxFreq
MaxValid == 3           \* len(valid_set) is drawn from 0..MaxValid
MaxLoss == 1            \* a per-batch validation loss is drawn from 0..MaxLoss
MaxRuns == 2            \* invocations of the trainer in one behaviour
NumTrainBatches == 2    \* len(train_loader)
ValidBatchSize == 2     \* cfg.validation.batch_size

VARIABLES
    rec_results_freq,   \* cfg.training.rec_results_freq
    validation_epochs,  \* cfg.validation.validation_epochs
    decay_epochs,       \* cfg.scheduler.decay_epochs
    n_valid,            \* len(base.valid_set)
    store,              \* the level's checkpoint slot
    runs,               \* invocations started so far
    pc,                 \* position of the running invocation
    max_epochs,         \* cfg.training.max_epochs of the running invocation
    loaded_epoch,       \* what load_checkpoint returned
    it,                 \* next value of the range iterator of the epoch loop
    epoch,              \* the loop variable
    batch,              \* training batches consumed in this epoch
    vb,                 \* validation batches consumed in this pass
    total_loss,         \* the validation accumulator
    vlosses,            \* the per-batch losses of this validation pass
    scheduler,          \* base.scheduler.last_epoch: the decay exponent
    model,              \* base.model's parameters: optimizer steps applied
    trace,              \* what this invocation has done, in order
    has_model,          \* hasattr(cfg, 'model') in this process
    resources,          \* what this process has initialised so far
    prev,               \* how the process before this one stopped
    rnn_store,          \* the RNN recipe's ./checkpoints slot
    rnn_runs,           \* invocations of the RNN recipe's main so far
    rnn_pc,             \* position of the running invocation of main
    rnn_loaded,         \* main: loaded_epoch
    rnn_it,             \* main: next value of the range iterator
    rnn_epoch,          \* main: the loop variable
    rnn_batch,          \* main: training batches consumed in this epoch
    rnn_trace           \* main: what this invocation has done, in order

cfgvars == <<rec_results_freq, validation_epochs, decay_epochs, n_valid>>
runvars == <<pc, max_epochs, loaded_epoch, it, epoch, batch, vb, total_loss,
             vlosses, scheduler, model, trace>>
procvars == <<has_model, resources, prev>>
darcyvars == <<cfgvars, store, runs, runvars, procvars>>
rnnvars == <<rnn_store, rnn_runs, rnn_pc, rnn_loaded, rnn_it, rnn_epoch,
             rnn_batch, rnn_trace>>
vars == <<darcyvars, rnnvars>>

\* ------------------------------------------------------- exact arithmetic
RECURSIVE GCD(_, _)
GCD(a, b) == IF b = 0 THEN a ELSE GCD(b, a % b)

RatNorm(n, d) ==
    LET g == GCD(n, d) IN <<n \div g, d \div g>>

RatAdd(x, y) == RatNorm(x[1] * y[2] + y[1] * x[2], x[2] * y[2])

RatZero == <<0, 1>>

\* --------------------------------------------------------- the data loader
\* DataLoader(valid_set, batch_size, shuffle=False): drop_last is False, so
\* the last batch holds the remainder.
NumValidBatches == (n_valid + ValidBatchSize - 1) \div ValidBatchSize

ValidBatchLen(i) ==
    IF i * ValidBatchSize <= n_valid THEN ValidBatchSize
    ELSE n_valid - (i - 1) * ValidBatchSize
FirstEpochRetrain(loaded) == IF loaded > 1 THEN loaded ELSE 1

\* ------------------------------------------------------------ TrainModel
FirstEpochRestart(loaded) == 1

FirstEpoch(loaded) == IF loaded + 1 > 1 THEN loaded + 1 ELSE 1

InRangeInclusive(e, m) == e <= m

InRange(e, m) == e < m
CkptDueSparse(e) == (e + 1) % (rec_results_freq + 1) = 0


CkptDueOff(e) == e % rec_results_freq = 0

CkptDue(e) == (e + 1) % rec_results_freq = 0

ValidDueOff(e) == e % validation_epochs = 0

ValidDue(e) == (e + 1) % validation_epochs = 0

DecayDueOff(e) == e % decay_epochs = 0

DecayDue(e) == (e + 1) % decay_epochs = 0

FinalTagMax(m) == m

FinalTag(m) == m - 1

LossTermNominal(loss, size, n) == RatNorm(loss * ValidBatchSize, n)

\* loss*batch['darcy'].shape[0]/len(base.valid_set)
LossTerm(loss, size, n) == RatNorm(loss * size, n)

PhaseAfterSwapped(p) ==
    CASE p = "train" -> "valid"
      [] p = "valid" -> "ckpt"
      [] p = "ckpt" -> "decay"
      [] p = "decay" -> "for"

\* The order of the blocks of the loop body.
PhaseAfter(p) ==
    CASE p = "train" -> "ckpt"
      [] p = "ckpt" -> "valid"
      [] p = "valid" -> "decay"
      [] p = "decay" -> "for"

Ev(k, e, i) == [k |-> k, e |-> e, s |-> scheduler, i |-> i]

\* ------------------------------------------------------ checkpoint store
EmptyStore == [present |-> FALSE, epoch |-> 0, scheduler |-> 0, model |-> 0]
save_keep_highest(e) ==
    IF store.present /\ store.epoch > e THEN store
    ELSE [present |-> TRUE, epoch |-> e, scheduler |-> scheduler,
          model |-> model]


save_checkpoint(e) ==
    [present |-> TRUE, epoch |-> e, scheduler |-> scheduler, model |-> model]

load_checkpoint == IF store.present THEN store.epoch ELSE 0

LoadedScheduler == IF store.present THEN store.scheduler ELSE 0

LoadedModel == IF store.present THEN store.model ELSE 0

\* What a stopping process leaves behind for the comparison with its
\* restart: max_epochs when it finished, and the training state it held when
\* nothing was trained since its last checkpoint.  It is forgotten as soon
\* as the restart trains an epoch of its own.
NoPrev == [done_max |-> 0, held |-> <<>>]

CheckpointedSince ==
    \E j \in DOMAIN trace :
        /\ trace[j].k \in {"ckpt", "final"}
        /\ \A i \in DOMAIN trace : i > j => trace[i].k \notin {"begin", "batch"}

StopSummary ==
    [done_max |-> IF pc = "done" THEN max_epochs ELSE 0,
     held |-> IF CheckpointedSince THEN <<model, scheduler>> ELSE <<>>]

ResetLocals ==
    /\ max_epochs' = 0
    /\ loaded_epoch' = 0
    /\ it' = 0
    /\ epoch' = 0
    /\ batch' = 0
    /\ vb' = 0
    /\ total_loss' = RatZero
    /\ vlosses' = <<>>
    /\ scheduler' = 0
    /\ model' = 0
    /\ trace' = <<>>

\* ------------------------------------------------------------------ Init
Stopped == {"idle", "killed", "failed", "done", "config_error", "crashed"}

Starting ==
    {"init_dist", "init_logger", "assert_model", "init_mlflow", "init_launch",
     "parent", "setup"}

Running == {"for", "train", "ckpt", "valid", "vloop", "decay", "final"}

Init ==
    /\ rec_results_freq \in 1..MaxFreq
    /\ validation_epochs \in 1..MaxFreq
    /\ decay_epochs \in 1..MaxFreq
    /\ n_valid \in 0..MaxValid
    /\ store = EmptyStore
    /\ runs = 0
    /\ pc = "idle"
    /\ max_epochs = 0
    /\ loaded_epoch = 0
    /\ it = 0
    /\ epoch = 0
    /\ batch = 0
    /\ vb = 0
    /\ total_loss = RatZero
    /\ vlosses = <<>>
    /\ scheduler = 0
    /\ model = 0
    /\ trace = <<>>
    /\ has_model = TRUE
    /\ resources = {}
    /\ prev = NoPrev
    /\ rnn_store = [present |-> FALSE, epoch |-> 0]
    /\ rnn_runs = 0
    /\ rnn_pc = "idle"
    /\ rnn_loaded = 0
    /\ rnn_it = 0
    /\ rnn_epoch = 0
    /\ rnn_batch = 0
    /\ rnn_trace = <<>>

\* --------------------------------------------------------------- actions
\* A new process runs nested_darcy_trainer on a configuration.
Launch ==
    /\ pc \in Stopped
    /\ runs < MaxRuns
    /\ runs' = runs + 1
    /\ has_model' \in BOOLEAN
    /\ resources' = {}
    /\ prev' = IF pc = "killed" THEN prev ELSE StopSummary
    /\ pc' = "init_dist"
    /\ ResetLocals
    /\ UNCHANGED rnnvars
    /\ UNCHANGED <<cfgvars, store>>

\* InitializeLoggers: DistributedManager.initialize(); dist = ...
InitDist ==
    /\ pc = "init_dist"
    /\ resources' = resources \cup {"dist"}
    /\ pc' = "init_logger"
    /\ UNCHANGED rnnvars
    /\ UNCHANGED <<cfgvars, store, runs, max_epochs, loaded_epoch, it, epoch,
                   batch, vb, total_loss, vlosses, scheduler, model, trace,
                   has_model, prev>>

\* logger = PythonLogger(name='darcy_nested_fno')
InitLogger ==
    /\ pc = "init_logger"
    /\ resources' = resources \cup {"logger"}
    /\ pc' = "assert_model"
    /\ UNCHANGED rnnvars
    /\ UNCHANGED <<cfgvars, store, runs, max_epochs, loaded_epoch, it, epoch,
                   batch, vb, total_loss, vlosses, scheduler, model, trace,
                   has_model, prev>>

\* assert hasattr(cfg, 'model'), ...
AssertModel ==
    /\ pc = "assert_model"
    /\ pc' = IF has_model THEN "init_mlflow" ELSE "config_error"
    /\ UNCHANGED rnnvars
    /\ UNCHANGED <<procvars, cfgvars, store, runs, max_epochs, loaded_epoch,
                   it, epoch, batch, vb, total_loss, vlosses, scheduler, model,
                   trace>>

\* initialize_mlflow(...)
InitMlflow ==
    /\ pc = "init_mlflow"
    /\ resources' = resources \cup {"mlflow"}
    /\ pc' = "init_launch"
    /\ UNCHANGED rnnvars
    /\ UNCHANGED <<cfgvars, store, runs, max_epochs, loaded_epoch, it, epoch,
                   batch, vb, total_loss, vlosses, scheduler, model, trace,
                   has_model, prev>>

\* LaunchLogger.initialize(use_mlflow=True); return dist, logger
InitLaunchLogger ==
    /\ pc = "init_launch"
    /\ resources' = resources \cup {"launch_logger"}
    /\ pc' = "parent"
    /\ UNCHANGED rnnvars
    /\ UNCHANGED <<cfgvars, store, runs, max_epochs, loaded_epoch, it, epoch,
                   batch, vb, total_loss, vlosses, scheduler, model, trace,
                   has_model, prev>>

\* "evaluate parent": the statement under that comment is a placeholder (its
\* target is `...`, EvaluateModel is not defined) and EvaluateParent, which
\* returns the undefined name pred, is never called.  Either the process
\* stops there, or it goes on as if the statement were absent; no parent
\* prediction is produced either way.
ParentPlaceholder ==
    /\ pc = "parent"
    /\ pc' \in {"crashed", "setup"}
    /\ UNCHANGED rnnvars
    /\ UNCHANGED <<procvars, cfgvars, store, runs, max_epochs, loaded_epoch,
                   it, epoch, batch, vb, total_loss, vlosses, scheduler, model,
                   trace>>

\* nested_darcy_trainer: build the infrastructure (a fresh scheduler), load
\* the checkpoint, enter TrainModel.
StartRun ==
    /\ pc = "setup"
    /\ \E m \in 1..MaxEpochs :
        /\ max_epochs' = m
        /\ loaded_epoch' = load_checkpoint
        /\ scheduler' = LoadedScheduler
        /\ model' = LoadedModel
        /\ it' = FirstEpoch(load_checkpoint)
    /\ resources' = resources \cup {"datasets", "model", "optimizer"}
    /\ pc' = "for"
    /\ epoch' = 0
    /\ batch' = 0
    /\ vb' = 0
    /\ total_loss' = RatZero
    /\ vlosses' = <<>>
    /\ trace' = <<>>
    /\ UNCHANGED rnnvars
    /\ UNCHANGED <<cfgvars, store, runs, has_model, prev>>

\* for epoch in range(...): the next epoch, entering its LaunchLogger scope.
ForNext ==
    /\ pc = "for"
    /\ InRange(it, max_epochs)
    /\ epoch' = it
    /\ it' = it + 1
    /\ batch' = 0
    /\ pc' = "train"
    /\ trace' = Append(trace, Ev("begin", it, 0))
    /\ prev' = NoPrev
    /\ UNCHANGED rnnvars
    /\ UNCHANGED <<cfgvars, store, runs, max_epochs, loaded_epoch, vb,
                   total_loss, vlosses, scheduler, model, has_model, resources>>

\* The range is exhausted; epoch keeps its last value.
ForExit ==
    /\ pc = "for"
    /\ ~InRange(it, max_epochs)
    /\ pc' = "final"
    /\ UNCHANGED rnnvars
    /\ UNCHANGED <<procvars, cfgvars, store, runs, max_epochs, loaded_epoch, it, epoch,
                   batch, vb, total_loss, vlosses, scheduler, model, trace>>

\* One training step on the next batch of train_loader.
TrainBatch ==
    /\ pc = "train"
    /\ batch < NumTrainBatches
    /\ batch' = batch + 1
    /\ model' = model + 1
    /\ trace' = Append(trace, Ev("batch", epoch, batch + 1))
    /\ UNCHANGED rnnvars
    /\ UNCHANGED <<procvars, cfgvars, store, runs, pc, max_epochs, loaded_epoch, it,
                   epoch, vb, total_loss, vlosses, scheduler>>

\* log.log_epoch({'Learning Rate': ...}) and leaving the logger scope.
LogEpoch ==
    /\ pc = "train"
    /\ batch = NumTrainBatches
    /\ pc' = PhaseAfter("train")
    /\ trace' = Append(trace, Ev("epoch", epoch, 0))
    /\ UNCHANGED rnnvars
    /\ UNCHANGED <<procvars, cfgvars, store, runs, max_epochs, loaded_epoch, it, epoch,
                   batch, vb, total_loss, vlosses, scheduler, model>>

SaveCheckpoint ==
    /\ pc = "ckpt"
    /\ CkptDue(epoch)
    /\ store' = save_checkpoint(epoch)
    /\ pc' = PhaseAfter("ckpt")
    /\ trace' = Append(trace, Ev("ckpt", epoch, 0))
    /\ UNCHANGED rnnvars
    /\ UNCHANGED <<procvars, cfgvars, runs, max_epochs, loaded_epoch, it, epoch, batch,
                   vb, total_loss, vlosses, scheduler, model>>

SkipCheckpoint ==
    /\ pc = "ckpt"
    /\ ~CkptDue(epoch)
    /\ pc' = PhaseAfter("ckpt")
    /\ UNCHANGED rnnvars
    /\ UNCHANGED <<procvars, cfgvars, store, runs, max_epochs, loaded_epoch, it, epoch,
                   batch, vb, total_loss, vlosses, scheduler, model, trace>>

\* with LaunchLogger('valid', epoch=epoch): total_loss = 0.
ValidBegin ==
    /\ pc = "valid"
    /\ ValidDue(epoch)
    /\ total_loss' = RatZero
    /\ vlosses' = <<>>
    /\ vb' = 0
    /\ pc' = "vloop"
    /\ UNCHANGED rnnvars
    /\ UNCHANGED <<procvars, cfgvars, store, runs, max_epochs, loaded_epoch, it, epoch,
                   batch, scheduler, model, trace>>

SkipValid ==
    /\ pc = "valid"
    /\ ~ValidDue(epoch)
    /\ pc' = PhaseAfter("valid")
    /\ UNCHANGED rnnvars
    /\ UNCHANGED <<procvars, cfgvars, store, runs, max_epochs, loaded_epoch, it, epoch,
                   batch, vb, total_loss, vlosses, scheduler, model, trace>>

\* One batch of valid_loader: compare, then accumulate the weighted loss.
ValidBatch ==
    /\ pc = "vloop"
    /\ vb < NumValidBatches
    /\ \E loss \in 0..MaxLoss :
        /\ total_loss' =
               RatAdd(total_loss, LossTerm(loss, ValidBatchLen(vb + 1), n_valid))
        /\ vlosses' = Append(vlosses, loss)
    /\ vb' = vb + 1
    /\ trace' = Append(trace, Ev("vbatch", epoch, vb + 1))
    /\ UNCHANGED rnnvars
    /\ UNCHANGED <<procvars, cfgvars, store, runs, pc, max_epochs, loaded_epoch, it,
                   epoch, batch, scheduler, model>>

\* log.log_epoch({'Validation error': total_loss}); the accumulator is dead
\* afterwards.
ValidLog ==
    /\ pc = "vloop"
    /\ vb = NumValidBatches
    /\ trace' = Append(trace, Ev("valid", epoch, 0))
    /\ total_loss' = RatZero
    /\ vlosses' = <<>>
    /\ vb' = 0
    /\ pc' = PhaseAfter("valid")
    /\ UNCHANGED rnnvars
    /\ UNCHANGED <<procvars, cfgvars, store, runs, max_epochs, loaded_epoch, it, epoch,
                   batch, scheduler, model>>

Decay ==
    /\ pc = "decay"
    /\ DecayDue(epoch)
    /\ scheduler' = scheduler + 1
    /\ trace' = Append(trace, Ev("decay", epoch, 0))
    /\ pc' = PhaseAfter("decay")
    /\ UNCHANGED rnnvars
    /\ UNCHANGED <<procvars, cfgvars, store, runs, max_epochs, loaded_epoch, it, epoch,
                   batch, vb, total_loss, vlosses, model>>

SkipDecay ==
    /\ pc = "decay"
    /\ ~DecayDue(epoch)
    /\ pc' = PhaseAfter("decay")
    /\ UNCHANGED rnnvars
    /\ UNCHANGED <<procvars, cfgvars, store, runs, max_epochs, loaded_epoch, it, epoch,
                   batch, vb, total_loss, vlosses, scheduler, model, trace>>

\* save final checkpoint
FinalCheckpoint ==
    /\ pc = "final"
    /\ store' = save_checkpoint(FinalTag(max_epochs))
    /\ trace' = Append(trace, Ev("final", FinalTag(max_epochs), 0))
    /\ pc' = "done"
    /\ UNCHANGED rnnvars
    /\ UNCHANGED <<procvars, cfgvars, runs, max_epochs, loaded_epoch, it, epoch, batch,
                   vb, total_loss, vlosses, scheduler, model>>
StepFailsThenFinal ==
    /\ \/ pc = "train" /\ batch < NumTrainBatches
       \/ pc = "vloop" /\ vb < NumValidBatches
    /\ pc' = "final"
    /\ trace' = Append(trace, Ev("error", epoch, 0))
    /\ UNCHANGED rnnvars
    /\ UNCHANGED <<procvars, cfgvars, store, runs, max_epochs, loaded_epoch, it, epoch,
                   batch, vb, total_loss, vlosses, scheduler, model>>

\* An exception in a training or validation step leaves TrainModel.
StepFails ==
    /\ \/ pc = "train" /\ batch < NumTrainBatches
       \/ pc = "vloop" /\ vb < NumValidBatches
    /\ pc' = "failed"
    /\ trace' = Append(trace, Ev("error", epoch, 0))
    /\ UNCHANGED rnnvars
    /\ UNCHANGED <<procvars, cfgvars, store, runs, max_epochs, loaded_epoch, it, epoch,
                   batch, vb, total_loss, vlosses, scheduler, model>>

\* The process is killed: only the checkpoint store survives.
Kill ==
    /\ pc \in Running \cup Starting
    /\ pc' = "killed"
    /\ prev' = StopSummary
    /\ resources' = {}
    /\ ResetLocals
    /\ UNCHANGED rnnvars
    /\ UNCHANGED <<cfgvars, store, runs, has_model>>

Next ==
    \/ Launch
    \/ InitDist
    \/ InitLogger
    \/ AssertModel
    \/ InitMlflow
    \/ InitLaunchLogger
    \/ ParentPlaceholder
    \/ StartRun
    \/ ForNext
    \/ ForExit
    \/ TrainBatch
    \/ LogEpoch
    \/ SaveCheckpoint
    \/ SkipCheckpoint
    \/ ValidBegin
    \/ SkipValid
    \/ ValidBatch
    \/ ValidLog
    \/ Decay
    \/ SkipDecay
    \/ FinalCheckpoint
    \/ StepFails
    \/ Kill

Spec == Init /\ [][Next]_vars

\* ------------------------------------------------ the RNN recipe's main
RnnEnd == 21            \* range(max(1, loaded_epoch + 1), 21)
RnnCkptPeriod == 5      \* if epoch % 5 == 4
RnnCkptPhase == 4
RnnTrainBatches == 1    \* len(train_dataloader)
RnnMaxRuns == 3         \* invocations of main in one behaviour

RnnLoad == IF rnn_store.present THEN rnn_store.epoch ELSE 0

RnnFirstEpoch(loaded) == IF loaded + 1 > 1 THEN loaded + 1 ELSE 1

RnnCkptDueMultiple(e) == e % RnnCkptPeriod = 0

RnnCkptDue(e) == e % RnnCkptPeriod = RnnCkptPhase

RnnEv(k, e) == [k |-> k, e |-> e]

\* The darcy recipe does not run while the RNN recipe is looked at.
InitRNN ==
    /\ Init
    /\ rec_results_freq = 1
    /\ validation_epochs = 1
    /\ decay_epochs = 1
    /\ n_valid = 0

\* main, up to the loop: loaded_epoch = load_checkpoint("./checkpoints", ...)
RnnStart ==
    /\ rnn_pc \in {"idle", "killed", "done"}
    /\ rnn_runs < RnnMaxRuns
    /\ rnn_runs' = rnn_runs + 1
    /\ rnn_loaded' = RnnLoad
    /\ rnn_it' = RnnFirstEpoch(RnnLoad)
    /\ rnn_epoch' = 0
    /\ rnn_batch' = 0
    /\ rnn_trace' = <<>>
    /\ rnn_pc' = "for"
    /\ UNCHANGED <<darcyvars, rnn_store>>

RnnForNext ==
    /\ rnn_pc = "for"
    /\ rnn_it < RnnEnd
    /\ rnn_epoch' = rnn_it
    /\ rnn_it' = rnn_it + 1
    /\ rnn_batch' = 0
    /\ rnn_trace' = Append(rnn_trace, RnnEv("begin", rnn_it))
    /\ rnn_pc' = "train"
    /\ UNCHANGED <<darcyvars, rnn_store, rnn_runs, rnn_loaded>>

RnnForExit ==
    /\ rnn_pc = "for"
    /\ ~(rnn_it < RnnEnd)
    /\ rnn_pc' = "done"
    /\ UNCHANGED <<darcyvars, rnn_store, rnn_runs, rnn_loaded, rnn_it,
                   rnn_epoch, rnn_batch, rnn_trace>>

\* One batch: optimizer.step(); scheduler.step()
RnnTrainBatch ==
    /\ rnn_pc = "train"
    /\ rnn_batch < RnnTrainBatches
    /\ rnn_batch' = rnn_batch + 1
    /\ rnn_trace' = Append(rnn_trace, RnnEv("batch", rnn_epoch))
    /\ UNCHANGED <<darcyvars, rnn_store, rnn_runs, rnn_pc, rnn_loaded, rnn_it,
                   rnn_epoch>>

\* validation_step(arch, test_dataloader, epoch)
RnnValidation ==
    /\ rnn_pc = "train"
    /\ rnn_batch = RnnTrainBatches
    /\ rnn_trace' = Append(rnn_trace, RnnEv("valid", rnn_epoch))
    /\ rnn_pc' = "ckpt"
    /\ UNCHANGED <<darcyvars, rnn_store, rnn_runs, rnn_loaded, rnn_it,
                   rnn_epoch, rnn_batch>>

RnnSaveCheckpoint ==
    /\ rnn_pc = "ckpt"
    /\ RnnCkptDue(rnn_epoch)
    /\ rnn_store' = [present |-> TRUE, epoch |-> rnn_epoch]
    /\ rnn_trace' = Append(rnn_trace, RnnEv("ckpt", rnn_epoch))
    /\ rnn_pc' = "for"
    /\ UNCHANGED <<darcyvars, rnn_runs, rnn_loaded, rnn_it, rnn_epoch,
                   rnn_batch>>

RnnSkipCheckpoint ==
    /\ rnn_pc = "ckpt"
    /\ ~RnnCkptDue(rnn_epoch)
    /\ rnn_pc' = "for"
    /\ UNCHANGED <<darcyvars, rnn_store, rnn_runs, rnn_loaded, rnn_it,
                   rnn_epoch, rnn_batch, rnn_trace>>

\* The process is killed: only ./checkpoints survives.
RnnKill ==
    /\ rnn_pc \in {"for", "train", "ckpt"}
    /\ rnn_pc' = "killed"
    /\ rnn_loaded' = 0
    /\ rnn_it' = 0
    /\ rnn_epoch' = 0
    /\ rnn_batch' = 0
    /\ rnn_trace' = <<>>
    /\ UNCHANGED <<darcyvars, rnn_store, rnn_runs>>

NextRNN ==
    \/ RnnStart
    \/ RnnForNext
    \/ RnnForExit
    \/ RnnTrainBatch
    \/ RnnValidation
    \/ RnnSaveCheckpoint
    \/ RnnSkipCheckpoint
    \/ RnnKill

SpecRNN == InitRNN /\ [][NextRNN]_vars

\* ------------------------------------------------- reading the trace
Idx == DOMAIN trace

Has(k, e) == \E i \in Idx : trace[i].k = k /\ trace[i].e = e

Count(k, e) == Cardinality({i \in Idx : trace[i].k = k /\ trace[i].e = e})

IsBegin(ev) == ev.k = "begin"

Begun == SelectSeq(trace, IsBegin)

NSteps == Cardinality({i \in Idx : trace[i].k = "decay"})

\* Epoch e has been trained and the run is past its checkpoint block.
CkptPassed(e) == Has("epoch", e) /\ ~(epoch = e /\ pc = "ckpt")

\* ... past its validation block (a failure with epoch = e after e's
\* training is a failure inside e's validation).
ValidPassed(e) ==
    Has("epoch", e) /\ ~(epoch = e /\ pc \in {"ckpt", "valid", "vloop", "failed"})

\* ... past its decay block.
DecayPassed(e) ==
    Has("epoch", e)
    /\ ~(epoch = e /\ pc \in {"ckpt", "valid", "vloop", "failed", "decay"})

Rank(k) ==
    CASE k = "begin" -> 0
      [] k = "batch" -> 1
      [] k = "epoch" -> 2
      [] k = "ckpt" -> 3
      [] k = "vbatch" -> 4
      [] k = "valid" -> 5
      [] k = "decay" -> 6
      [] k = "final" -> 7
      [] k = "error" -> 8

\* A step that calls save_checkpoint.
SaveStep ==
    /\ Len(trace') = Len(trace) + 1
    /\ trace'[Len(trace')].k \in {"ckpt", "final"}

\* ---------------------------------------------------------------- C1
\* C1: one invocation of TrainModel trains exactly the epochs e with
\* max(1, loaded_epoch+1) <= e < max_epochs, each once (all of its batches)
\* and in increasing order; no epoch <= loaded_epoch and never max_epochs.
C1_EpochRange ==
    LET lo == IF loaded_epoch >= 1 THEN loaded_epoch + 1 ELSE 1
        n == IF max_epochs > lo THEN max_epochs - lo ELSE 0
    IN  /\ \A i \in DOMAIN Begun :
            /\ Begun[i].e = lo + i - 1
            /\ Begun[i].e < max_epochs
            /\ Begun[i].e > loaded_epoch
            /\ Count("batch", Begun[i].e) <= NumTrainBatches
        /\ pc \in {"final", "done"} =>
            /\ Len(Begun) = n
            /\ \A i \in DOMAIN Begun :
                   Count("batch", Begun[i].e) = NumTrainBatches

C1_Witness ==
    /\ pc = "done"
    /\ loaded_epoch >= 1
    /\ Len(Begun) >= 2

\* ---------------------------------------------------------------- C2
\* C2: an invocation that finishes its epoch range has written, as its last
\* action, exactly one final checkpoint tagged max_epochs-1; also when no
\* epoch was trained.
C2_FinalCheckpoint ==
    pc = "done" =>
        /\ Len(trace) >= 1
        /\ trace[Len(trace)].k = "final"
        /\ trace[Len(trace)].e = max_epochs - 1
        /\ Cardinality({i \in Idx : trace[i].k = "final"}) = 1

C2_Witness ==
    /\ pc = "done"
    /\ Len(trace) = 1
    /\ loaded_epoch >= max_epochs - 1
    /\ loaded_epoch >= 1

\* ---------------------------------------------------------------- C3
\* C3 as stated: every save's tag is greater than the tag of the save
\* before it.
C3_StrictlyIncreasing ==
    [][(SaveStep /\ store.present) => store'.epoch > store.epoch]_vars

\* C3 amended: a periodic save's tag is greater than the tag of the save
\* before it; the final save's tag is at least that tag whenever
\* max_epochs-1 is at least the epoch the run loaded.
C3_NonDecreasing ==
    [][(SaveStep /\ store.present) =>
          /\ trace'[Len(trace')].k = "ckpt" => store'.epoch > store.epoch
          /\ (trace'[Len(trace')].k = "final"
                /\ max_epochs - 1 >= loaded_epoch) =>
                 store'.epoch >= store.epoch]_vars

C3_Witness ==
    /\ pc = "done"
    /\ Has("ckpt", max_epochs - 1)
    /\ loaded_epoch >= 1

\* ---------------------------------------------------------------- C4
\* C4 as stated: the scheduler has been stepped at most
\* floor(current_epoch / decay_epochs) times, and only, exactly once, in
\* epochs with (epoch+1) % decay_epochs = 0.
C4_StepsAtMostEpochDiv ==
    /\ NSteps <= epoch \div decay_epochs
    /\ \A i \in Idx : trace[i].k = "decay" =>
           /\ (trace[i].e + 1) % decay_epochs = 0
           /\ Count("decay", trace[i].e) = 1

\* C4 amended: the steps of the invocation number at most
\* floor((current_epoch + 1) / decay_epochs); a step happens only in an
\* epoch with (epoch+1) % decay_epochs = 0, and exactly once in every such
\* epoch that gets past its decay block.
C4_StepsAtMostNextEpochDiv ==
    /\ NSteps <= (epoch + 1) \div decay_epochs
    /\ \A i \in Idx : trace[i].k = "decay" =>
           /\ (trace[i].e + 1) % decay_epochs = 0
           /\ Count("decay", trace[i].e) = 1
    /\ \A i \in DOMAIN Begun :
           DecayPassed(Begun[i].e) =>
               (Has("decay", Begun[i].e) <=>
                    (Begun[i].e + 1) % decay_epochs = 0)

C4_Witness ==
    /\ decay_epochs >= 2
    /\ NSteps >= 1
    /\ NSteps = (epoch + 1) \div decay_epochs
    /\ NSteps > epoch \div decay_epochs

\* ---------------------------------------------------------------- C5
\* C5: while epoch e is trained the decay exponent (the scheduler's step
\* count) is e \div decay_epochs.
C5_ExponentIsEpochDiv ==
    \A i \in Idx :
        trace[i].k \in {"begin", "batch", "epoch"} =>
            trace[i].s = trace[i].e \div decay_epochs

\* ---------------------------------------------------------------- C6
\* C6: within an epoch the phases come in the order training, checkpoint,
\* validation, decay; the checkpoint follows all training batches, the
\* scheduler step follows the validation record, and an epoch begins only
\* when every triggered phase of the epoch before it has finished.
C6_PhaseOrder ==
    /\ \A i \in Idx : i < Len(trace) =>
           LET a == trace[i]
               b == trace[i + 1]
           IN  \/ b.k = "final" /\ a.k # "final"
               \/ /\ b.k = "begin"
                  /\ a.k \in {"epoch", "ckpt", "valid", "decay"}
                  /\ b.e = a.e + 1
               \/ /\ b.k \notin {"begin", "final"}
                  /\ b.e = a.e
                  /\ \/ Rank(b.k) > Rank(a.k)
                     \/ b.k = a.k /\ b.k \in {"batch", "vbatch"}
    /\ \A i \in Idx :
           LET a == trace[i]
               before(k) == \E j \in 1..(i - 1) : trace[j].k = k /\ trace[j].e = a.e
               nbefore(k) ==
                   Cardinality({j \in 1..(i - 1) : trace[j].k = k /\ trace[j].e = a.e})
           IN  /\ a.k \in {"epoch", "ckpt", "vbatch", "valid", "decay"} =>
                      nbefore("batch") = NumTrainBatches
               /\ a.k \in {"ckpt", "vbatch", "valid", "decay"} => before("epoch")
               /\ (a.k \in {"vbatch", "valid", "decay"}
                     /\ (a.e + 1) % rec_results_freq = 0) => before("ckpt")
               /\ (a.k = "decay" /\ (a.e + 1) % validation_epochs = 0) =>
                      before("valid")
               /\ (a.k = "begin" /\ i > 1) =>
                      /\ Has("epoch", a.e - 1)
                      /\ (a.e % rec_results_freq = 0) => Has("ckpt", a.e - 1)
                      /\ (a.e % validation_epochs = 0) => Has("valid", a.e - 1)
                      /\ (a.e % decay_epochs = 0) => Has("decay", a.e - 1)

C6_Witness ==
    \E e \in 1..MaxEpochs :
        /\ Has("ckpt", e)
        /\ Has("valid", e)
        /\ Has("decay", e)
        /\ Has("batch", e + 1)
        /\ NumValidBatches >= 2

\* ---------------------------------------------------------------- C7
\* C7: a periodic checkpoint tagged e is written iff e is a trained epoch of
\* the run and (e+1) % rec_results_freq = 0, exactly once, after e's training
\* and before the first training step of e+1.
C7_PeriodicCheckpoint ==
    /\ \A i \in Idx : trace[i].k = "ckpt" =>
           /\ (trace[i].e + 1) % rec_results_freq = 0
           /\ Count("ckpt", trace[i].e) = 1
           /\ \E j \in 1..(i - 1) : trace[j].k = "epoch" /\ trace[j].e = trace[i].e
           /\ \A j \in 1..(i - 1) : trace[j].e <= trace[i].e
           /\ \A j \in Idx : (j > i /\ trace[j].k = "batch") => trace[j].e > trace[i].e
    /\ \A i \in DOMAIN Begun :
           CkptPassed(Begun[i].e) =>
               (Has("ckpt", Begun[i].e) <=>
                    (Begun[i].e + 1) % rec_results_freq = 0)

C7_Witness ==
    \E e \in 1..MaxEpochs :
        /\ Has("ckpt", e)
        /\ Has("batch", e + 1)
        /\ CkptPassed(e + 1)
        /\ ~Has("ckpt", e + 1)

\* ---------------------------------------------------------------- C8
\* C8: a validation pass runs in epoch e iff e is trained and
\* (e+1) % validation_epochs = 0; the pass visits every batch of the
\* validation source exactly once and emits exactly one record.
C8_ValidationPass ==
    LET k == (n_valid + ValidBatchSize - 1) \div ValidBatchSize
    IN  /\ \A i \in Idx : trace[i].k = "valid" =>
               /\ (trace[i].e + 1) % validation_epochs = 0
               /\ Count("valid", trace[i].e) = 1
               /\ \E j \in 1..(i - 1) :
                      trace[j].k = "epoch" /\ trace[j].e = trace[i].e
               /\ Count("vbatch", trace[i].e) = k
               /\ \A b \in 1..k :
                      \E j \in 1..(i - 1) :
                          /\ trace[j].k = "vbatch"
                          /\ trace[j].e = trace[i].e
                          /\ trace[j].i = b
        /\ \A i \in Idx : trace[i].k = "vbatch" =>
               /\ (trace[i].e + 1) % validation_epochs = 0
               /\ trace[i].i \in 1..k
               /\ \A j \in Idx :
                      (trace[j].k = "vbatch" /\ trace[j].e = trace[i].e
                         /\ trace[j].i = trace[i].i) => j = i
        /\ \A i \in DOMAIN Begun :
               ValidPassed(Begun[i].e) =>
                   (Has("valid", Begun[i].e) <=>
                        (Begun[i].e + 1) % validation_epochs = 0)

C8_Witness ==
    \E e \in 1..MaxEpochs :
        /\ Has("valid", e)
        /\ Count("vbatch", e) >= 2
        /\ ValidPassed(e + 1)
        /\ ~Has("valid", e + 1)

\* ---------------------------------------------------------------- C9
RECURSIVE SumTo(_, _)
SumTo(f(_), n) == IF n = 0 THEN 0 ELSE f(n) + SumTo(f, n - 1)

\* The accumulation of lines 154-158 over given losses and batch sizes.
RECURSIVE WeightedError(_, _, _)
WeightedError(losses, sizes, n) ==
    IF losses = <<>> THEN RatZero
    ELSE LET m == Len(losses)
         IN  RatAdd(WeightedError(SubSeq(losses, 1, m - 1),
                                  SubSeq(sizes, 1, m - 1), n),
                    LossTerm(losses[m], sizes[m], n))

\* C9: over a non-empty validation set the batch weights s_i / N sum to 1
\* and the reported error is (sum_i err_i * s_i) / N; sizes 3,3,4 with
\* errors 1,2,3 (tenths) give 21/10 tenths.
C9_WeightedError ==
    /\ WeightedError(<<1, 2, 3>>, <<3, 3, 4>>, 10) = <<21, 10>>
    /\ (pc = "vloop" /\ n_valid > 0) =>
           LET wl(i) == vlosses[i] * ValidBatchLen(i)
           IN  /\ Len(vlosses) = vb
               /\ total_loss = RatNorm(SumTo(wl, vb), n_valid)
    /\ (pc = "vloop" /\ n_valid > 0 /\ vb = NumValidBatches) =>
           /\ SumTo(ValidBatchLen, vb) = n_valid
           /\ \A i \in 1..vb : ValidBatchLen(i) >= 1

C9_Witness ==
    /\ pc = "vloop"
    /\ vb = NumValidBatches
    /\ vb >= 2
    /\ ValidBatchLen(1) # ValidBatchLen(2)
    /\ vlosses[1] > 0
    /\ vlosses[2] > 0

\* ---------------------------------------------------------------- C10
\* C10: with an empty validation source a triggered validation pass ends
\* the run in an error: no validation record for that epoch, no later
\* epoch, no completion.
C10_EmptyValidationIsFatal ==
    n_valid = 0 =>
        \A i \in Idx :
            (trace[i].k = "epoch" /\ (trace[i].e + 1) % validation_epochs = 0) =>
                /\ ~Has("valid", trace[i].e)
                /\ ~Has("begin", trace[i].e + 1)
                /\ pc \notin {"final", "done"}
\* ---------------------------------------------------------------- C11
Saves == {i \in Idx : trace[i].k \in {"ckpt", "final"}}

LastSave == CHOOSE i \in Saves : \A j \in Saves : j <= i

\* C11: after a fatal error in a training or validation step the run does
\* nothing more (no checkpoint, periodic or final; no later epoch), and the
\* store holds the last checkpoint saved before the error: the run's last
\* save, or what the run loaded when it made none.
C11_ErrorAborts ==
    \A i \in Idx :
        trace[i].k = "error" =>
            /\ i = Len(trace)
            /\ pc = "failed"
            /\ \A j \in Idx : trace[j].e <= trace[i].e
            /\ IF Saves = {}
               THEN load_checkpoint = loaded_epoch
               ELSE /\ store.present
                    /\ store.epoch = trace[LastSave].e
                    /\ store.scheduler = trace[LastSave].s
                    /\ trace[LastSave].k = "ckpt"

C11_Witness ==
    /\ pc = "failed"
    /\ \E i \in Idx : trace[i].k = "ckpt" /\ trace[i].e < epoch
    /\ \E i \in Idx : trace[i].k = "vbatch" /\ trace[i].e = epoch

\* ---------------------------------------------------------------- C12
\* Epochs of this run that a restart from the store would train again: those
\* past their checkpoint block, and those begun.
UncoveredCompleted ==
    {e \in 1..MaxEpochs : CkptPassed(e) /\ e > load_checkpoint}

UncoveredBegun ==
    {e \in 1..MaxEpochs : Has("begin", e) /\ e > load_checkpoint}

\* C12: wherever a run (fresh or resumed) is killed, fewer than
\* rec_results_freq completed epochs are not covered by the stored
\* checkpoint, so a restart trains again at most the epoch in progress and
\* fewer than rec_results_freq completed ones.
C12_BoundedLoss ==
    /\ Cardinality(UncoveredCompleted) < rec_results_freq
    /\ Cardinality(UncoveredBegun) <= rec_results_freq
    /\ Cardinality(UncoveredBegun) <= Cardinality(UncoveredCompleted) + 1

C12_Witness ==
    /\ pc = "train"
    /\ batch >= 1
    /\ loaded_epoch >= 1
    /\ rec_results_freq >= 2
    /\ Cardinality(UncoveredCompleted) = rec_results_freq - 1
    /\ Cardinality(UncoveredBegun) = rec_results_freq

\* ---------------------------------------------------------------- C13
\* C13 as stated: a restart that follows a stop with nothing trained since
\* the last checkpoint, and that trains no epoch of its own, ends with the
\* model, optimizer (both counted by model) and scheduler state the stopped
\* process held.
C13_ResumeIdempotent ==
    (pc = "done" /\ Begun = <<>> /\ prev.held # <<>>) =>
        <<model, scheduler>> = prev.held

\* The same after a process that ran to its end.
C13_AfterFinishedRun ==
    (pc = "done" /\ Begun = <<>> /\ prev.held # <<>> /\ prev.done_max > 0) =>
        <<model, scheduler>> = prev.held

C15_FailsBeforeAllocation ==
    pc = "config_error" => resources = {}

UninterruptedSteps(e) ==
    Cardinality({x \in 1..(e - 1) : (x + 1) % decay_epochs = 0})

\* C17 as stated, for a first run and the run that resumes it: every epoch
\* is trained with the step count of the uninterrupted run, so a resume from
\* a periodic checkpoint neither loses nor repeats a decay step.
C17_ResumeKeepsSchedule ==
    runs <= 2 =>
        \A i \in Idx :
            trace[i].k \in {"begin", "batch"} =>
                trace[i].s = UninterruptedSteps(trace[i].e)

\* ---------------------------------------------------------------- C18
\* C18: a process that follows one which reached done, with the same
\* max_epochs, loads max_epochs-1, trains no epoch, runs no validation and no
\* scheduler step, and writes only the final checkpoint, tagged
\* max_epochs-1 again.
C18_RerunIsNoOp ==
    [][(prev.done_max > 0 /\ prev.done_max = max_epochs) =>
           /\ loaded_epoch = max_epochs - 1
           /\ pc \in {"for", "final", "done"}
           /\ pc = "for" =>
                  /\ trace = <<>>
                  /\ pc' \in {"final", "killed"}
                  /\ pc' = "final" =>
                         UNCHANGED <<store, scheduler, model, trace>>
           /\ pc = "final" =>
                  /\ trace = <<>>
                  /\ pc' \in {"done", "killed"}
                  /\ pc' = "done" =>
                         /\ Len(trace') = 1
                         /\ trace'[1].k = "final"
                         /\ trace'[1].e = max_epochs - 1
                         /\ store'.epoch = store.epoch
                         /\ store'.epoch = max_epochs - 1
                         /\ UNCHANGED <<scheduler, model>>]_vars

C18_Witness ==
    /\ pc = "done"
    /\ prev.done_max = max_epochs
    /\ max_epochs >= 3
    /\ Len(trace) = 1
    /\ model > 0

\* ---------------------------------------------------------------- C19
RnnIdx == DOMAIN rnn_trace

RnnCount(k, e) ==
    Cardinality({i \in RnnIdx : rnn_trace[i].k = k /\ rnn_trace[i].e = e})

\* Epoch e has been trained and the run is past its checkpoint block.
RnnPassed(e) == RnnCount("valid", e) = 1 /\ ~(rnn_epoch = e /\ rnn_pc = "ckpt")

\* C19: main trains the epochs max(1, loaded_epoch+1)..20 in order; a
\* checkpoint tagged e is written iff e was trained and e % 5 = 4, so none
\* is tagged 20: a run that finishes leaves tag 19 in the store, and a run
\* that loads 19 trains epoch 20 again.
C19_RnnCheckpoints ==
    LET begun == {i \in RnnIdx : rnn_trace[i].k = "begin"}
        last == RnnEnd - 1
    IN  /\ \A i \in begun :
               /\ rnn_trace[i].e \in 1..last
               /\ rnn_trace[i].e > rnn_loaded
               /\ \/ rnn_trace[i].e = (IF rnn_loaded >= 1 THEN rnn_loaded + 1 ELSE 1)
                  \/ \E j \in begun : j < i /\ rnn_trace[j].e = rnn_trace[i].e - 1
        /\ \A i \in RnnIdx :
               rnn_trace[i].k = "ckpt" =>
                   /\ rnn_trace[i].e % 5 = 4
                   /\ rnn_trace[i].e # last
                   /\ \E j \in RnnIdx : j < i /\ rnn_trace[j] = RnnEv("valid", rnn_trace[i].e)
                   /\ RnnCount("batch", rnn_trace[i].e) = RnnTrainBatches
        /\ \A e \in 1..last :
               RnnPassed(e) =>
                   RnnCount("ckpt", e) = (IF e % 5 = 4 THEN 1 ELSE 0)
        /\ rnn_pc = "done" =>
               /\ rnn_store = [present |-> TRUE, epoch |-> last - 1]
               /\ RnnCount("begin", last) = 1
               /\ RnnCount("batch", last) = RnnTrainBatches
               /\ RnnCount("ckpt", last) = 0

C19_Witness ==
    /\ rnn_pc = "done"
    /\ rnn_loaded = RnnEnd - 2
    /\ rnn_runs >= 3
    /\ rnn_store.epoch = RnnEnd - 2
    /\ RnnCount("batch", RnnEnd - 1) = RnnTrainBatches
    /\ RnnCount("valid", RnnEnd - 1) = 1
    /\ Len(rnn_trace) = RnnTrainBatches + 2


TypeOK ==
    /\ pc \in Stopped \cup Starting \cup Running
    /\ has_model \in BOOLEAN
    /\ resources \subseteq
           {"dist", "logger", "mlflow", "launch_logger", "datasets", "model",
            "optimizer"}
    /\ prev.done_max \in 0..MaxEpochs
    /\ model \in Nat
    /\ runs \in 0..MaxRuns
    /\ scheduler \in Nat
    /\ batch \in 0..NumTrainBatches
    /\ vb \in 0..NumValidBatches
====
